---- MODULE Spec2Model ----
(***************************************************************************)
(* Model of ElliottWaveAnalyzer (src/elt_1210.py): swing detection, the    *)
(* nested wave-candidate search of identify_wave, and classify_pattern.    *)
(*                                                                         *)
(* Prices are modelled as non-negative integers and timestamps as the      *)
(* 1-based position of a row in the Close series (strictly increasing and  *)
(* unique, as the data source delivers them).  The float thresholds 0.382, *)
(* 0.5 and 0.618 are kept per mille and every ratio is kept as a fraction  *)
(* num/den, compared by cross-multiplication.  For the integer prices used *)
(* here this agrees with IEEE double arithmetic: a correctly rounded       *)
(* quotient of two small integers compares with the correctly rounded      *)
(* literal exactly as the real numbers do.                                 *)
(***************************************************************************)
EXTENDS Integers, Sequences, FiniteSets

VARIABLES
    pc,            \* position: "start"/"done" (identify_wave), "call"/"returned" (classify_pattern)
    prices,        \* self.data['Close'], a sequence of prices
    swing_highs,   \* local of identify_wave: rows [ts, price]
    swing_lows,    \* local of identify_wave: rows [ts, price]
    wave_points,   \* local of identify_wave: the candidates appended so far
    ret,           \* what identify_wave returns
    err,           \* type of the exception caught at line 159, or "none"
    pattern_type,  \* local of identify_wave: the label printed at line 155
    cp_arg,        \* argument of a direct classify_pattern call
    cp_numeric,    \* numeric type of the prices in cp_arg: "numpy" or "python"
    cp_result      \* outcome of the direct classify_pattern call

vars == <<pc, prices, swing_highs, swing_lows, wave_points, ret, err,
          pattern_type, cp_arg, cp_numeric, cp_result>>

(***************************************************************************)
(* Bounds of the model.                                                    *)
(***************************************************************************)
MaxLen == 8
MaxPrice == 2
LongLen == 9
LongPrice == 2
WideLen == 8
WidePrice == 4
ShortLen == 6
ShortPrice == 4

(***************************************************************************)
(* Program constants, per mille.                                           *)
(***************************************************************************)
Scale == 1000
FibLow == 382
FibHigh == 618
SearchLow == 500
SearchHigh == 618

NaN == -1

Abs(x) == IF x < 0 THEN -x ELSE x

(***************************************************************************)
(* Float division.  numpy.float64 operands give inf or nan on a zero       *)
(* divisor (with a warning only); Python scalars raise ZeroDivisionError.  *)
(***************************************************************************)
Divide(x, y, numeric) ==
    IF y # 0 THEN [kind |-> "finite", num |-> x, den |-> y]
    ELSE IF numeric = "python" THEN [kind |-> "ZeroDivisionError", num |-> x, den |-> y]
    ELSE IF x = 0 THEN [kind |-> "nan", num |-> x, den |-> y]
    ELSE [kind |-> "inf", num |-> x, den |-> y]

AbsRatio(r) == [kind |-> r.kind, num |-> Abs(r.num), den |-> Abs(r.den)]

\* c/Scale <= r, for r a non-negative ratio
ConstLeRatio(c, r) ==
    CASE r.kind = "finite" -> c * r.den <= Scale * r.num
      [] r.kind = "inf" -> TRUE
      [] OTHER -> FALSE

\* r <= c/Scale, for r a non-negative ratio
RatioLeConst(r, c) ==
    CASE r.kind = "finite" -> Scale * r.num <= c * r.den
      [] OTHER -> FALSE

(***************************************************************************)
(* _detect_swings                                                          *)
(***************************************************************************)
\* shift(..., fill_value=0) in place of the NaN fill
ShiftFillZero(s, periods) ==
    [k \in 1..Len(s) |->
        IF (k - periods) \in 1..Len(s) THEN s[k - periods] ELSE 0]

Shift(s, periods) ==
    [k \in 1..Len(s) |->
        IF (k - periods) \in 1..Len(s) THEN s[k - periods] ELSE NaN]

\* a comparison with NaN is False
Gt(a, b) == a # NaN /\ b # NaN /\ a > b
Lt(a, b) == a # NaN /\ b # NaN /\ a < b

And(a, b) == [k \in 1..Len(a) |-> a[k] /\ b[k]]
GtSeries(a, b) == [k \in 1..Len(a) |-> Gt(a[k], b[k])]
LtSeries(a, b) == [k \in 1..Len(a) |-> Lt(a[k], b[k])]

SwingHighMask(s) == And(GtSeries(s, Shift(s, 1)), GtSeries(s, Shift(s, -1)))

SwingLowMask(s) == And(LtSeries(s, Shift(s, 1)), LtSeries(s, Shift(s, -1)))

RECURSIVE BoolIndexFrom(_, _, _)
BoolIndexFrom(s, mask, k) ==
    IF k > Len(s) THEN <<>>
    ELSE IF mask[k] THEN <<[ts |-> k, price |-> s[k]]>> \o BoolIndexFrom(s, mask, k + 1)
    ELSE BoolIndexFrom(s, mask, k + 1)

\* prices[mask]
BoolIndex(s, mask) == BoolIndexFrom(s, mask, 1)

RECURSIVE InsertByIndex(_, _)
InsertByIndex(row, sorted) ==
    IF sorted = <<>> THEN <<row>>
    ELSE IF row.ts < Head(sorted).ts THEN <<row>> \o sorted
    ELSE <<Head(sorted)>> \o InsertByIndex(row, Tail(sorted))

RECURSIVE SortIndex(_)
SortIndex(rows) ==
    IF rows = <<>> THEN <<>>
    ELSE InsertByIndex(rows[Len(rows)], SortIndex(SubSeq(rows, 1, Len(rows) - 1)))

DetectSwings(s) ==
    [highs |-> SortIndex(BoolIndex(s, SwingHighMask(s))),
     lows |-> SortIndex(BoolIndex(s, SwingLowMask(s)))]

(***************************************************************************)
(* classify_pattern                                                        *)
(***************************************************************************)
NoneArg == [kind |-> "None"]
EmptyArg == [kind |-> "empty"]
WaveArg(w) == [kind |-> "wave", wave |-> w]

Returned(label) == [ret |-> label, raised |-> "none"]
Raised(exc) == [ret |-> "NoReturn", raised |-> exc]

\* wave_3_length >= wave_1_length in place of >
ClassifyPatternGe(arg, numeric) ==
    IF arg.kind # "wave" THEN Returned("Insufficient Data")
    ELSE
      LET wave_1 == arg.wave.Wave_1.price_range
          wave_2 == arg.wave.Wave_2.price_range
          wave_3 == arg.wave.Wave_3.price_range
          wave_1_length == Abs(wave_1[2] - wave_1[1])
          wave_2_length == Abs(wave_2[2] - wave_2[1])
          wave_3_length == Abs(wave_3[2] - wave_3[1])
          wave_2_retracement == Divide(wave_2_length, wave_1_length, numeric)
          is_impulsive == /\ ConstLeRatio(FibLow, wave_2_retracement)
                          /\ RatioLeConst(wave_2_retracement, FibHigh)
                          /\ wave_3_length >= wave_1_length
      IN IF wave_2_retracement.kind = "ZeroDivisionError" THEN Raised("ZeroDivisionError")
         ELSE IF is_impulsive THEN Returned("Impulsive")
         ELSE Returned("Corrective")

ClassifyPattern(arg, numeric) ==
    IF arg.kind # "wave" THEN Returned("Insufficient Data")
    ELSE
      LET wave_1 == arg.wave.Wave_1.price_range
          wave_2 == arg.wave.Wave_2.price_range
          wave_3 == arg.wave.Wave_3.price_range
          wave_1_length == Abs(wave_1[2] - wave_1[1])
          wave_2_length == Abs(wave_2[2] - wave_2[1])
          wave_3_length == Abs(wave_3[2] - wave_3[1])
          wave_2_retracement == Divide(wave_2_length, wave_1_length, numeric)
          is_impulsive == /\ ConstLeRatio(FibLow, wave_2_retracement)
                          /\ RatioLeConst(wave_2_retracement, FibHigh)
                          /\ wave_3_length > wave_1_length
      IN IF wave_2_retracement.kind = "ZeroDivisionError" THEN Raised("ZeroDivisionError")
         ELSE IF is_impulsive THEN Returned("Impulsive")
         ELSE Returned("Corrective")

(***************************************************************************)
(* identify_wave                                                           *)
(***************************************************************************)
\* s.iloc[k] and s.index[k], k counted from 0
Iloc(s, k) == s[k + 1].price
Index(s, k) == s[k + 1].ts

Segment(p0, p1, t0, t1) ==
    [price_range |-> <<p0, p1>>, start_date |-> t0, end_date |-> t1, duration |-> t1 - t0]

ChronoGate(highs, lows, i, j) ==
    Index(lows, i) < Index(highs, j - 1) /\ Index(highs, j - 1) < Index(lows, j)

\* the gate without its upper bound: 0.5 <= wave_2_retracement
ProportionGateNoUpper(wave_1_low, wave_1_high, wave_2_low) ==
    LET wave_1_length == wave_1_high - wave_1_low
        wave_2_retracement ==
            AbsRatio(Divide(wave_2_low - wave_1_high, wave_1_length, "numpy"))
    IN ConstLeRatio(SearchLow, wave_2_retracement)

\* the gate without its lower bound: wave_2_retracement <= 0.618
ProportionGateNoLower(wave_1_low, wave_1_high, wave_2_low) ==
    LET wave_1_length == wave_1_high - wave_1_low
        wave_2_retracement ==
            AbsRatio(Divide(wave_2_low - wave_1_high, wave_1_length, "numpy"))
    IN RatioLeConst(wave_2_retracement, SearchHigh)

ProportionGate(wave_1_low, wave_1_high, wave_2_low) ==
    LET wave_1_length == wave_1_high - wave_1_low
        wave_2_retracement ==
            AbsRatio(Divide(wave_2_low - wave_1_high, wave_1_length, "numpy"))
    IN ConstLeRatio(SearchLow, wave_2_retracement)
       /\ RatioLeConst(wave_2_retracement, SearchHigh)

Candidate(highs, lows, i, j) ==
    [Wave_1 |-> Segment(Iloc(lows, i), Iloc(highs, j - 1), Index(lows, i), Index(highs, j - 1)),
     Wave_2 |-> Segment(Iloc(highs, j - 1), Iloc(lows, j), Index(highs, j - 1), Index(lows, j)),
     Wave_3 |-> Segment(Iloc(lows, j), Iloc(highs, j), Index(lows, j), Index(highs, j))]

\* the nested loops of lines 100-136; the result is the list built when the
\* loops end, normally or by the IndexError of swing_lows.iloc[j]
RECURSIVE SearchFrom(_, _, _, _, _)
SearchFrom(highs, lows, i, j, acc) ==
    IF i > Len(lows) - 2 THEN [points |-> acc, err |-> "none"]
    ELSE IF j > Len(highs) - 1 THEN SearchFrom(highs, lows, i + 1, i + 2, acc)
    ELSE IF j >= Len(lows) THEN [points |-> acc, err |-> "IndexError"]
    ELSE IF /\ ChronoGate(highs, lows, i, j)
            /\ j < Len(highs)
            /\ ProportionGate(Iloc(lows, i), Iloc(highs, j - 1), Iloc(lows, j))
         THEN SearchFrom(highs, lows, i, j + 1, Append(acc, Candidate(highs, lows, i, j)))
    ELSE SearchFrom(highs, lows, i, j + 1, acc)

Search(highs, lows) == SearchFrom(highs, lows, 0, 1, <<>>)

NoneRet == [kind |-> "None"]
WaveRet(w) == [kind |-> "wave", wave |-> w]

\* lines 139-157: the latest wave is classified and returned; an exception of
\* classify_pattern ends in the handler of line 159 like any other
Classified(latest_wave, classified) ==
    IF classified.raised # "none"
      THEN [ret |-> NoneRet, err |-> classified.raised, pattern_type |-> "NotClassified"]
    ELSE [ret |-> WaveRet(latest_wave), err |-> "none", pattern_type |-> classified.ret]

Outcome(found) ==
    IF found.err # "none"
      THEN [ret |-> NoneRet, err |-> found.err, pattern_type |-> "NotClassified"]
    ELSE IF found.points = <<>>
      THEN [ret |-> NoneRet, err |-> "none", pattern_type |-> "NotClassified"]
    ELSE Classified(found.points[Len(found.points)],
                    ClassifyPattern(WaveArg(found.points[Len(found.points)]), "numpy"))

Finish(swings, found, out) ==
    /\ swing_highs' = swings.highs
    /\ swing_lows' = swings.lows
    /\ wave_points' = found.points
    /\ ret' = out.ret
    /\ err' = out.err
    /\ pattern_type' = out.pattern_type

Report(swings, found) == Finish(swings, found, Outcome(found))

Analyse(swings) == Report(swings, Search(swings.highs, swings.lows))

IdentifyWave ==
    /\ pc = "start"
    /\ Analyse(DetectSwings(prices))
    /\ pc' = "done"
    /\ UNCHANGED <<prices, cp_arg, cp_numeric, cp_result>>

SeriesUpTo(len, price) == UNION {[1..n -> 0..price] : n \in 0..len}

InitSeries(len, price) ==
    /\ pc = "start"
    /\ prices \in SeriesUpTo(len, price)
    /\ swing_highs = <<>>
    /\ swing_lows = <<>>
    /\ wave_points = <<>>
    /\ ret = NoneRet
    /\ err = "none"
    /\ pattern_type = "NotClassified"
    /\ cp_arg = NoneArg
    /\ cp_numeric = "numpy"
    /\ cp_result = Returned("NotCalled")

Init == InitSeries(MaxLen, MaxPrice)
Next == IdentifyWave
Spec == Init /\ [][Next]_vars

InitLong == InitSeries(LongLen, LongPrice)
SpecLong == InitLong /\ [][Next]_vars

InitWide == InitSeries(WideLen, WidePrice)
SpecWide == InitWide /\ [][Next]_vars

InitShort == InitSeries(ShortLen, ShortPrice)
SpecShort == InitShort /\ [][Next]_vars

(***************************************************************************)
(* A direct call of classify_pattern.  The price ranges are drawn from     *)
(* values whose differences put len2/len1 on, just inside and just outside *)
(* both ends of the band (382/1000, 618/1000, 236/618, 382/618), give      *)
(* len3 below, equal to and above len1, and give len1 = 0.                 *)
(***************************************************************************)
ClassifyPrices == {0, 382, 500, 618, 1000}

DirectCandidate(a, b, c, d, e, f) ==
    [Wave_1 |-> Segment(a, b, 0, 0),
     Wave_2 |-> Segment(c, d, 0, 0),
     Wave_3 |-> Segment(e, f, 0, 0)]

ClassifyArgs ==
    {NoneArg, EmptyArg} \cup
    {WaveArg(DirectCandidate(a, b, c, d, e, f)) :
        a \in ClassifyPrices, b \in ClassifyPrices, c \in ClassifyPrices,
        d \in ClassifyPrices, e \in ClassifyPrices, f \in ClassifyPrices}

InitClassify ==
    /\ pc = "call"
    /\ cp_arg \in ClassifyArgs
    /\ cp_numeric \in {"numpy", "python"}
    /\ cp_result = Returned("NotCalled")
    /\ prices = <<>>
    /\ swing_highs = <<>>
    /\ swing_lows = <<>>
    /\ wave_points = <<>>
    /\ ret = NoneRet
    /\ err = "none"
    /\ pattern_type = "NotClassified"

ClassifyCall ==
    /\ pc = "call"
    /\ cp_result' = ClassifyPattern(cp_arg, cp_numeric)
    /\ pc' = "returned"
    /\ UNCHANGED <<prices, swing_highs, swing_lows, wave_points, ret, err,
                   pattern_type, cp_arg, cp_numeric>>

NextClassify == ClassifyCall
SpecClassify == InitClassify /\ [][NextClassify]_vars

(***************************************************************************)
(* Properties                                                              *)
(***************************************************************************)
RangeLen(seg) == Abs(seg.price_range[2] - seg.price_range[1])

Chronological(c) ==
    /\ c.Wave_1.start_date < c.Wave_1.end_date
    /\ c.Wave_1.end_date < c.Wave_2.end_date
    /\ c.Wave_2.end_date < c.Wave_3.end_date
    /\ c.Wave_1.duration >= 0
    /\ c.Wave_2.duration >= 0
    /\ c.Wave_3.duration >= 0

\* C1: every candidate the search emits has Wave_1.start_date <
\* Wave_1.end_date < Wave_2.end_date < Wave_3.end_date, so that no segment
\* has a negative duration.
C1_ChronologicalCandidates ==
    \A k \in 1..Len(wave_points) : Chronological(wave_points[k])

\* C2: the candidate search never ends in an index-out-of-range fault,
\* whatever the numbers of swing lows and swing highs.
C2_NoIndexError == pc = "done" => err # "IndexError"

\* C3: identify_wave returns the no-candidate result only when the search ran
\* to its end and no pair passed both gates; a fault is never reported as the
\* same result.
C3_NoneOnlyWithoutFault ==
    (pc = "done" /\ ret = NoneRet) => (err = "none" /\ wave_points = <<>>)

InClassifierBand(len1, len2) ==
    FibLow * len1 <= Scale * len2 /\ Scale * len2 <= FibHigh * len1

C5_DegenerateWaveFails ==
    (pc = "returned" /\ cp_arg.kind = "wave" /\ RangeLen(cp_arg.wave.Wave_1) = 0)
      => cp_result = Raised("ZeroDivisionError")

\* C6: every emitted candidate has a Wave 1 of non-zero length and a
\* retracement |wave_2_low - wave_1_high| / |wave_1_high - wave_1_low| within
\* [0.5, 0.618], both ends included.
C6_RetracementGate ==
    \A k \in 1..Len(wave_points) :
      LET c == wave_points[k]
          wave_1_length == c.Wave_1.price_range[2] - c.Wave_1.price_range[1]
          retraced == c.Wave_2.price_range[2] - c.Wave_1.price_range[2]
      IN /\ wave_1_length # 0
         /\ SearchLow * Abs(wave_1_length) <= Scale * Abs(retraced)
         /\ Scale * Abs(retraced) <= SearchHigh * Abs(wave_1_length)

\* three lows and three highs were searched to the end: two pairs were
\* emitted and a pair was turned down
C6_Witness ==
    /\ pc = "done"
    /\ err = "none"
    /\ Len(swing_lows) = 3
    /\ Len(swing_highs) = 3
    /\ Len(wave_points) = 2

IsSwingRow(rows, k) == \E r \in 1..Len(rows) : rows[r].ts = k

WellFormedRows(rows) ==
    /\ \A r \in 1..Len(rows) :
         rows[r].ts \in 1..Len(prices) /\ rows[r].price = prices[rows[r].ts]
    /\ \A r \in 1..(Len(rows) - 1) : rows[r].ts < rows[r + 1].ts

\* C7: the point at position k is a swing high exactly when it is neither
\* the first nor the last point and its price is strictly greater than both
\* neighbours', a swing low exactly when strictly less than both; no point
\* is both, and fewer than three points give two empty sets.
C7_SwingsExact ==
    pc = "done" =>
      /\ WellFormedRows(swing_highs)
      /\ WellFormedRows(swing_lows)
      /\ \A k \in 1..Len(prices) :
           /\ IsSwingRow(swing_highs, k) <=>
                (/\ 2 <= k
                 /\ k <= Len(prices) - 1
                 /\ prices[k] > prices[k - 1]
                 /\ prices[k] > prices[k + 1])
           /\ IsSwingRow(swing_lows, k) <=>
                (/\ 2 <= k
                 /\ k <= Len(prices) - 1
                 /\ prices[k] < prices[k - 1]
                 /\ prices[k] < prices[k + 1])
           /\ ~(IsSwingRow(swing_highs, k) /\ IsSwingRow(swing_lows, k))
      /\ Len(prices) < 3 => (swing_highs = <<>> /\ swing_lows = <<>>)

\* swings of both kinds were found in a series with a flat run whose first
\* point is above its neighbour
C7_Witness ==
    /\ pc = "done"
    /\ swing_highs # <<>>
    /\ swing_lows # <<>>
    /\ prices[1] > prices[2]
    /\ \E k \in 2..(Len(prices) - 1) : prices[k] = prices[k + 1]

\* C8: when the search emits a candidate, identify_wave returns the last one
\* emitted, whose Wave_1.start_date is not before that of any other.
C8_ReturnsLastEmitted ==
    (pc = "done" /\ wave_points # <<>>) =>
      /\ ret = WaveRet(wave_points[Len(wave_points)])
      /\ \A k \in 1..Len(wave_points) :
           wave_points[k].Wave_1.start_date
             <= wave_points[Len(wave_points)].Wave_1.start_date

\* C9: in every emitted candidate Wave 1 rises and Wave 2 falls.
C9_RiseThenFall ==
    \A k \in 1..Len(wave_points) :
      LET c == wave_points[k]
      IN /\ c.Wave_1.price_range[2] > c.Wave_1.price_range[1]
         /\ c.Wave_2.price_range[2] < c.Wave_2.price_range[1]

\* C10: for the candidate identify_wave classifies, len1 > 0, the
\* classifier's band 0.382 <= len2/len1 <= 0.618 holds, and the label is
\* "Impulsive" exactly when len3 > len1 and "Corrective" otherwise.
C10_PipelineClassification ==
    (pc = "done" /\ ret.kind = "wave") =>
      LET len1 == RangeLen(ret.wave.Wave_1)
          len2 == RangeLen(ret.wave.Wave_2)
          len3 == RangeLen(ret.wave.Wave_3)
      IN /\ err = "none"
         /\ len1 > 0
         /\ InClassifierBand(len1, len2)
         /\ pattern_type = IF len3 > len1 THEN "Impulsive" ELSE "Corrective"

\* a wave was returned and classified "Impulsive"
C10_Witness ==
    /\ pc = "done"
    /\ ret.kind = "wave"
    /\ pattern_type = "Impulsive"

====
